---- MODULE Spec2Model ----
(***************************************************************************)
(* A model of TetrisField.py: a rectangular grid of cell codes with a      *)
(* per-column height cache, the collision test, the perfect-fit test, the  *)
(* drop resolution loop, placement / removal, and the two copy operations. *)
(*                                                                         *)
(* numpy storage is modelled as a heap of buffers: a TetrisField is a      *)
(* window (buffer id, first column, width, height) onto a buffer, because  *)
(* a basic slice of an ndarray is a view of the same memory while np.copy  *)
(* allocates new memory.                                                   *)
(***************************************************************************)
EXTENDS Integers, Sequences, FiniteSets, TLC

VARIABLES
    bufData,      \* buffer id -> [<<row, col>> -> cell code]   (ndarray memory of .data)
    bufHeights,   \* buffer id -> [col -> cached height]        (ndarray memory of .columnHeights)
    fields,       \* field name -> [buf, x0, width, height]     (the TetrisField objects)
    placed,       \* field name -> pieces put there with placePiece and not unplaced
    piece,        \* the caller's piece object
    pc,           \* "idle", or "searching" inside findDrop's loop
    target,       \* name of the field the running / last call was made on
    currentResult,\* findDrop's local currentResult
    outcomes,     \* the isPerfectFit outcomes of the running / last findDrop, in order
    result,       \* what the last findDrop returned: "unset", "None" or "piece"
    positions,    \* the argument of the last collides(positions) call
    collideResult,\* what that call returned: "unset", "True" or "False"
    trip,         \* the piece of the last placePiece / unplacePiece pair and the field before it
    returned      \* the last getCellValue / getColumnHeights call: its arguments and its value

vars == <<bufData, bufHeights, fields, placed, piece, pc, target, currentResult,
          outcomes, result, positions, collideResult, trip, returned>>

----------------------------------------------------------------------------
(* Bounds of the model *)

MaxWidth == 4
MaxHeight == 4
MaxPlaced == 1

----------------------------------------------------------------------------
(* Cell codes and the shape catalog (module TetrisPiece) *)

EMPTY == "."
LIMIT == "X"

\* TetrisPiece.typeStringToInt: the one-character type string of a cell state
\* to the small integer stored in the uint8 grid.
typeStringToInt ==
    [s \in {".", "X", "O", "S", "Z", "I", "T"} |->
        CASE s = "." -> 0
          [] s = "X" -> 1
          [] s = "O" -> 2
          [] s = "S" -> 3
          [] s = "Z" -> 4
          [] s = "I" -> 5
          [] s = "T" -> 6]

EMPTY_INT == typeStringToInt[EMPTY]
LIMIT_INT == typeStringToInt[LIMIT]

\* piece.offsets: per shape, the list of orientations; an orientation is a
\* list of (rowOffset, colOffset) pairs relative to the top-left corner.
offsets ==
    [s \in {"O", "S", "Z", "I", "T"} |->
        CASE s = "O" -> << << <<0,0>>, <<0,1>>, <<1,0>>, <<1,1>> >> >>
          [] s = "S" -> << << <<0,1>>, <<0,2>>, <<1,0>>, <<1,1>> >>,
                           << <<0,0>>, <<1,0>>, <<1,1>>, <<2,1>> >> >>
          [] s = "Z" -> << << <<0,0>>, <<0,1>>, <<1,1>>, <<1,2>> >>,
                           << <<0,1>>, <<1,0>>, <<1,1>>, <<2,0>> >> >>
          [] s = "I" -> << << <<0,0>>, <<0,1>>, <<0,2>>, <<0,3>> >>,
                           << <<0,0>>, <<1,0>>, <<2,0>>, <<3,0>> >> >>
          [] s = "T" -> << << <<0,1>>, <<1,0>>, <<1,1>>, <<1,2>> >>,
                           << <<0,0>>, <<1,0>>, <<1,1>>, <<2,0>> >>,
                           << <<0,0>>, <<0,1>>, <<0,2>>, <<1,1>> >>,
                           << <<0,1>>, <<1,0>>, <<1,1>>, <<2,1>> >> >>]

\* The shapes the callers of the placement scenarios use, and those the
\* drop-only scenario uses.
Shapes == {"O", "S", "Z"}
DropShapes == DOMAIN offsets

\* A piece object: type string, type int, current orientation, top-left corner.
MakePiece(s, rot, row, col) ==
    [typeString |-> s,
     typeInt |-> typeStringToInt[s],
     currentOrientation |-> offsets[s][rot],
     topLeftCorner |-> <<row, col>>]

NoPiece ==
    [typeString |-> EMPTY, typeInt |-> EMPTY_INT,
     currentOrientation |-> << >>, topLeftCorner |-> <<0, 0>>]

----------------------------------------------------------------------------
(* numpy storage *)

ToUint8(v) == v % 256

\* numpy index normalisation along one axis of length n: a negative index
\* counts from the end; outside [-n, n) is an IndexError.
IndexOk(i, n) == -n <= i /\ i < n
Wrap(i, n) == IF i < 0 THEN i + n ELSE i

\* TetrisField.__init__: zero-filled grid and zero-filled height cache.
NewData(w, h) == [p \in (0..h-1) \X (0..w-1) |-> 0]
NewHeights(w) == [c \in 0..w-1 |-> 0]

\* A store is the pair of heaps; operations take a store and a field window.
Store(d, hs) == [data |-> d, heights |-> hs]

\* self.data[y, x] (read); defined when InData(f, y, x).
InData(f, y, x) == IndexOk(y, f.height) /\ IndexOk(x, f.width)
DataAt(st, f, y, x) ==
    st.data[f.buf][<<Wrap(y, f.height), f.x0 + Wrap(x, f.width)>>]

\* self.data[y, x] = v
SetData(st, f, y, x, v) ==
    [st EXCEPT !.data[f.buf][<<Wrap(y, f.height), f.x0 + Wrap(x, f.width)>>] = ToUint8(v)]

\* self.columnHeights[x] and self.columnHeights[x] = v
HeightAt(st, f, x) == st.heights[f.buf][f.x0 + Wrap(x, f.width)]
SetHeight(st, f, x, v) ==
    [st EXCEPT !.heights[f.buf][f.x0 + Wrap(x, f.width)] = ToUint8(v)]

----------------------------------------------------------------------------
(* TetrisField operations, as functions of a store and a field window *)

\* getColumnHeight(columnIndex, recalc=True): count the non-Empty cells from
\* the floor upward, stopping at the first Empty one, and cache the count.
RECURSIVE ScanColumn(_, _, _, _, _)
ScanColumn(st, f, columnIndex, y, height) ==
    IF y < 0 THEN height
    ELSE IF DataAt(st, f, y, columnIndex) = EMPTY_INT THEN height
    ELSE ScanColumn(st, f, columnIndex, y - 1, height + 1)

getColumnHeight(st, f, columnIndex) ==
    SetHeight(st, f, columnIndex, ScanColumn(st, f, columnIndex, f.height - 1, 0))

\* Variant of getCellValue that reads outside the bounds as Empty.
getCellValueEmptyOutside(st, f, y, x) ==
    IF 0 <= y /\ y < f.height /\ 0 <= x /\ x < f.width
    THEN DataAt(st, f, y, x)
    ELSE EMPTY_INT

\* Variant of getCellValue whose test has no lower bounds, so that a
\* negative index numpy accepts reads the cell counted from the end.
getCellValueNoLowerBound(st, f, y, x) ==
    IF y < f.height /\ x < f.width /\ InData(f, y, x)
    THEN DataAt(st, f, y, x)
    ELSE LIMIT_INT

\* getCellValue(y, x): the stored cell, or LIMIT_INT outside the bounds.
getCellValue(st, f, y, x) ==
    IF 0 <= y /\ y < f.height /\ 0 <= x /\ x < f.width
    THEN DataAt(st, f, y, x)
    ELSE LIMIT_INT

\* An optional argument: {} is None, {v} is the value v.
None == {}
Some(v) == {v}
ValueOf(arg) == CHOOSE v \in arg : TRUE

\* The bound i of a basic slice over an axis of length n: a negative bound
\* counts from the end, and the result is clipped to 0..n.
SliceIndex(i, n) ==
    IF i < 0 THEN (IF i + n < 0 THEN 0 ELSE i + n)
    ELSE IF i > n THEN n ELSE i

\* getColumnHeights(startIndex=None, endIndex=None): the defaults are 0 and
\* width - 1, and the answer is the slice columnHeights[startIndex:endIndex],
\* here as the sequence of its elements.
getColumnHeights(st, f, startIndex, endIndex) ==
    LET start == IF startIndex = None THEN 0 ELSE ValueOf(startIndex)
        end == IF endIndex = None THEN f.width - 1 ELSE ValueOf(endIndex)
        lo == SliceIndex(start, f.width)
        hi == SliceIndex(end, f.width)
    IN  [k \in 1..(IF hi > lo THEN hi - lo ELSE 0) |-> HeightAt(st, f, lo + k - 1)]

\* collides(positions): walk the list; an IndexError or a non-Empty cell
\* answers True at once, the end of the list answers False.
RECURSIVE collidesFrom(_, _, _, _)
collidesFrom(st, f, ps, i) ==
    IF i > Len(ps) THEN FALSE
    ELSE LET y == ps[i][1]
             x == ps[i][2]
         IN  IF ~InData(f, y, x) THEN TRUE
             ELSE IF DataAt(st, f, y, x) # EMPTY_INT THEN TRUE
             ELSE collidesFrom(st, f, ps, i + 1)

collides(st, f, ps) == collidesFrom(st, f, ps, 1)

\* The absolute cells of a piece, in the order of its orientation list.
finalPositionsOf(p) ==
    [i \in 1..Len(p.currentOrientation) |->
        <<p.currentOrientation[i][1] + p.topLeftCorner[1],
          p.currentOrientation[i][2] + p.topLeftCorner[2]>>]

\* placePiece(piece): write typeInt into every cell and bump the cached
\* height of its column to max(cached, height - y).
\* Variant of the combination of the cached height with height - y that
\* keeps the smaller of the two.
Min(a, b) == IF a <= b THEN a ELSE b

Max(a, b) == IF a >= b THEN a ELSE b

\* Variant of the loop of placePiece that caches height - y of the cell
\* written last instead of the maximum with the cached height.
RECURSIVE placeFromNoMax(_, _, _, _, _)
placeFromNoMax(st, f, p, ps, i) ==
    IF i > Len(ps) THEN st
    ELSE LET y == ps[i][1]
             x == ps[i][2]
             st1 == SetData(st, f, y, x, p.typeInt)
             st2 == SetHeight(st1, f, x, f.height - y)
         IN  placeFromNoMax(st2, f, p, ps, i + 1)

RECURSIVE placeFrom(_, _, _, _, _)
placeFrom(st, f, p, ps, i) ==
    IF i > Len(ps) THEN st
    ELSE LET y == ps[i][1]
             x == ps[i][2]
             st1 == SetData(st, f, y, x, p.typeInt)
             st2 == SetHeight(st1, f, x, Max(HeightAt(st1, f, x), f.height - y))
         IN  placeFrom(st2, f, p, ps, i + 1)

placePiece(st, f, p) == placeFrom(st, f, p, finalPositionsOf(p), 1)

\* unplacePiece(piece): write EMPTY_INT into every cell, then recompute the
\* cached height of every distinct column touched.
RECURSIVE clearFrom(_, _, _, _)
clearFrom(st, f, ps, i) ==
    IF i > Len(ps) THEN st
    ELSE clearFrom(SetData(st, f, ps[i][1], ps[i][2], EMPTY_INT), f, ps, i + 1)

RECURSIVE recalcAll(_, _, _)
recalcAll(st, f, s) ==
    IF s = {} THEN st
    ELSE LET x == CHOOSE c \in s : TRUE
         IN  recalcAll(getColumnHeight(st, f, x), f, s \ {x})

unplacePiece(st, f, p) ==
    LET ps == finalPositionsOf(p)
        s == {ps[i][2] : i \in 1..Len(ps)}
    IN  recalcAll(clearFrom(st, f, ps, 1), f, s)

\* Variant of the comparison that looks the type string up in typeStringToInt
\* first, so that a cell holding the piece's own code compares equal.
CellEqualsTypeInt(cellVal, typeString) == cellVal = typeStringToInt[typeString]

\* cellVal == piece.typeString: the cell value is a numpy uint8 (or the int
\* LIMIT_INT) and typeString is a Python str, a key of typeStringToInt; an
\* integer never compares equal to a string.
CellEqualsTypeString(cellVal, typeString) == FALSE

\* Variant of the if/elif chain whose last branch never fires: an Empty
\* cell is accepted in every direction.
comparisonFailsEmptyOk(st, f, p, ps, pos, emptyOK) ==
    LET cellVal == getCellValue(st, f, pos[1], pos[2])
    IN  IF \E i \in 1..Len(ps) : ps[i] = pos THEN FALSE
        ELSE IF cellVal = LIMIT_INT THEN FALSE
        ELSE IF CellEqualsTypeString(cellVal, p.typeString) THEN TRUE
        ELSE FALSE

\* One entry of isPerfectFit's comparisons tuple, run through the if/elif
\* chain: TRUE when it sets allCellsHappy = False.
comparisonFails(st, f, p, ps, pos, emptyOK) ==
    LET cellVal == getCellValue(st, f, pos[1], pos[2])
    IN  IF \E i \in 1..Len(ps) : ps[i] = pos THEN FALSE
        ELSE IF cellVal = LIMIT_INT THEN FALSE
        ELSE IF CellEqualsTypeString(cellVal, p.typeString) THEN TRUE
        ELSE IF cellVal = EMPTY_INT /\ ~emptyOK THEN TRUE
        ELSE FALSE

\* Variant of the comparisons tuple that allows Empty in no direction.
comparisonsStrictSides(y, x) ==
    << <<<<y + 1, x>>, FALSE>>, <<<<y, x - 1>>, FALSE>>, <<<<y, x + 1>>, FALSE>> >>

\* Variant of the comparisons tuple whose first entry is the cell above.
comparisonsAbove(y, x) ==
    << <<<<y - 1, x>>, FALSE>>, <<<<y, x - 1>>, TRUE>>, <<<<y, x + 1>>, TRUE>> >>

\* The three comparisons of one cell: below (Empty not allowed), left, right.
comparisons(y, x) ==
    << <<<<y + 1, x>>, FALSE>>, <<<<y, x - 1>>, TRUE>>, <<<<y, x + 1>>, TRUE>> >>

\* isPerfectFit(piece): the outcome and the store it leaves behind.
isPerfectFit(st, f, p) ==
    LET ps == finalPositionsOf(p)
    IN  IF collides(st, f, ps)
        THEN [outcome |-> "EXIT", store |-> st]
        ELSE LET st1 == placePiece(st, f, p)
                 allCellsHappy ==
                     \A i \in 1..Len(ps) :
                         \A k \in 1..3 :
                             LET cmp == comparisons(ps[i][1], ps[i][2])[k]
                             IN  ~comparisonFails(st1, f, p, ps, cmp[1], cmp[2])
                 st2 == unplacePiece(st1, f, p)
             IN  [outcome |-> IF allCellsHappy THEN "PERFECT" ELSE "CONTINUE",
                  store |-> st2]

\* Variant of copy() that assigns the source's arrays without np.copy.
copyFieldShared(st, f, newBuf) ==
    [field |-> [buf |-> f.buf, x0 |-> f.x0, width |-> f.width, height |-> f.height],
     store |-> st]

\* copy(): a new field over freshly allocated copies of both arrays.
copyField(st, f, newBuf) ==
    [field |-> [buf |-> newBuf, x0 |-> 0, width |-> f.width, height |-> f.height],
     store |-> Store(
         [st.data EXCEPT ![newBuf] =
             [q \in (0..f.height-1) \X (0..f.width-1) |-> DataAt(st, f, q[1], q[2])]],
         [st.heights EXCEPT ![newBuf] =
             [c \in 0..f.width-1 |-> HeightAt(st, f, c)]])]

\* copySubFields((startX, endX)) for 0 <= startX <= endX <= width: basic
\* slices data[:, startX:endX] and columnHeights[startX:endX], which are
\* views of the source's memory.
copySubFields(f, startX, endX) ==
    [buf |-> f.buf, x0 |-> f.x0 + startX, width |-> endX - startX, height |-> f.height]

----------------------------------------------------------------------------
(* The state machine *)

TheStore == Store(bufData, bufHeights)

\* The buffers: 0 holds the arrays made by TetrisField(width, height),
\* 1 the arrays np.copy allocates in copy().
Bufs == {0, 1}

\* No placePiece / unplacePiece pair is being followed, and no query has
\* been made.
NoTrip == [piece |-> NoPiece, before |-> Store(<< >>, << >>), stage |-> "none"]
NoCall == [op |-> "none", args |-> << >>, value |-> << >>]

Init ==
    /\ bufData = [b \in Bufs |-> NewData(MaxWidth, MaxHeight)]
    /\ bufHeights = [b \in Bufs |-> NewHeights(MaxWidth)]
    /\ fields = [n \in {"field"} |->
                    [buf |-> 0, x0 |-> 0, width |-> MaxWidth, height |-> MaxHeight]]
    /\ placed = [n \in {"field", "copy", "sub"} |-> {}]
    /\ piece = NoPiece
    /\ pc = "idle"
    /\ target = "field"
    /\ currentResult = "unset"
    /\ outcomes = << >>
    /\ result = "unset"
    /\ positions = << >>
    /\ collideResult = "unset"
    /\ trip = NoTrip
    /\ returned = NoCall

\* Number of pieces lying on the fields through placePiece calls.
NumPlaced == Cardinality(placed["field"]) + Cardinality(placed["copy"])
             + Cardinality(placed["sub"])

SetStore(st) ==
    /\ bufData' = st.data
    /\ bufHeights' = st.heights

\* The record of the last findDrop is dropped when the caller moves on.
ForgetDrop ==
    /\ piece' = NoPiece
    /\ currentResult' = "unset"
    /\ outcomes' = << >>
    /\ result' = "unset"

\* No call is running and no drop attempt is pending: the caller is between
\* two attempts.
Between == pc = "idle" /\ piece = NoPiece

\* The rotations of a shape and the anchors a caller tries.
Rotations(s) == 1..Len(offsets[s])

\* The caller sets the orientation and the position (column col, row 0) of
\* the piece (driver, lines 190-192) and calls findDrop(piece) on field n;
\* line 60 evaluates the first isPerfectFit.
FindDropStart(n, s, rot, col) ==
    /\ Between
    /\ n \in DOMAIN fields
    /\ col \in 0..fields[n].width - 1
    /\ LET p == MakePiece(s, rot, 0, col)
       IN  \E fit \in {isPerfectFit(TheStore, fields[n], p)} :
           /\ piece' = p
           /\ SetStore(fit.store)
           /\ currentResult' = fit.outcome
           /\ outcomes' = <<fit.outcome>>
    /\ pc' = "searching"
    /\ target' = n
    /\ result' = "unset"
    /\ UNCHANGED <<fields, placed, positions, collideResult, trip, returned>>

\* Variant of the loop body that re-evaluates without advancing the row.
FindDropLoopNoAdvance ==
    /\ pc = "searching"
    /\ currentResult = "CONTINUE"
    /\ \E fit \in {isPerfectFit(TheStore, fields[target], piece)} :
           /\ SetStore(fit.store)
           /\ currentResult' = fit.outcome
           /\ outcomes' = Append(outcomes, fit.outcome)
    /\ UNCHANGED <<fields, placed, piece, pc, target, result, positions, collideResult,
                   trip, returned>>

\* Variant of the loop body that gives up at the first CONTINUE instead of
\* moving the piece down.
FindDropLoopGivesUp ==
    /\ pc = "searching"
    /\ currentResult = "CONTINUE"
    /\ currentResult' = "EXIT"
    /\ outcomes' = Append(outcomes, "EXIT")
    /\ UNCHANGED <<bufData, bufHeights, fields, placed, piece, pc, target, result,
                   positions, collideResult, trip, returned>>

\* Variant of the loop body that increments topLeftCorner[1], the column,
\* instead of the row.
FindDropLoopWrongAxis ==
    /\ pc = "searching"
    /\ currentResult = "CONTINUE"
    /\ LET p == [piece EXCEPT !.topLeftCorner[2] = @ + 1]
       IN  \E fit \in {isPerfectFit(TheStore, fields[target], p)} :
           /\ piece' = p
           /\ SetStore(fit.store)
           /\ currentResult' = fit.outcome
           /\ outcomes' = Append(outcomes, fit.outcome)
    /\ UNCHANGED <<fields, placed, pc, target, result, positions, collideResult,
                   trip, returned>>

\* findDrop, lines 61-63: one turn of the while loop.
FindDropLoop ==
    /\ pc = "searching"
    /\ currentResult = "CONTINUE"
    /\ LET p == [piece EXCEPT !.topLeftCorner[1] = @ + 1]
       IN  \E fit \in {isPerfectFit(TheStore, fields[target], p)} :
           /\ piece' = p
           /\ SetStore(fit.store)
           /\ currentResult' = fit.outcome
           /\ outcomes' = Append(outcomes, fit.outcome)
    /\ UNCHANGED <<fields, placed, pc, target, result, positions, collideResult,
                   trip, returned>>

\* Variant of the return that hands the piece back whatever the outcome.
FindDropReturnAlwaysPiece ==
    /\ pc = "searching"
    /\ currentResult # "CONTINUE"
    /\ result' = "piece"
    /\ pc' = "idle"
    /\ UNCHANGED <<bufData, bufHeights, fields, placed, piece, target, currentResult,
                   outcomes, positions, collideResult, trip, returned>>

\* findDrop, lines 64-67: None on EXIT, the piece otherwise.
FindDropReturn ==
    /\ pc = "searching"
    /\ currentResult # "CONTINUE"
    /\ result' = IF currentResult = "EXIT" THEN "None" ELSE "piece"
    /\ pc' = "idle"
    /\ UNCHANGED <<bufData, bufHeights, fields, placed, piece, target, currentResult,
                   outcomes, positions, collideResult, trip, returned>>

\* The caller commits the piece findDrop returned (driver, line 195), as
\* long as fewer than limit pieces lie on the fields.
PlaceResultUpTo(limit) ==
    /\ pc = "idle"
    /\ result = "piece"
    /\ NumPlaced < limit
    /\ SetStore(placePiece(TheStore, fields[target], piece))
    /\ placed' = [placed EXCEPT ![target] = @ \cup {piece}]
    /\ ForgetDrop
    /\ UNCHANGED <<fields, pc, target, positions, collideResult, trip, returned>>

PlaceResult == PlaceResultUpTo(MaxPlaced)

\* The caller leaves the result of findDrop unused and goes on (driver,
\* line 194 with result None, and the next turn of its loops).
DiscardResult ==
    /\ pc = "idle"
    /\ result # "unset"
    /\ ForgetDrop
    /\ UNCHANGED <<bufData, bufHeights, fields, placed, pc, target, positions,
                   collideResult, trip, returned>>

\* placePiece(piece) of a piece the caller has checked to be collision-free,
\* between two drop attempts.
PlacePiece(n, s, rot, row, col) ==
    /\ Between
    /\ n \in DOMAIN fields
    /\ NumPlaced < MaxPlaced
    /\ row \in 0..fields[n].height - 1
    /\ col \in 0..fields[n].width - 1
    /\ LET p == MakePiece(s, rot, row, col)
       IN  /\ ~collides(TheStore, fields[n], finalPositionsOf(p))
           /\ SetStore(placePiece(TheStore, fields[n], p))
           /\ placed' = [placed EXCEPT ![n] = @ \cup {p}]
    /\ target' = n
    /\ ForgetDrop
    /\ UNCHANGED <<fields, pc, positions, collideResult, trip, returned>>

\* unplacePiece(piece) of a piece placed earlier (driver, line 197).
UnplacePiece(n, p) ==
    /\ Between
    /\ n \in DOMAIN fields
    /\ p \in placed[n]
    /\ SetStore(unplacePiece(TheStore, fields[n], p))
    /\ placed' = [placed EXCEPT ![n] = @ \ {p}]
    /\ target' = n
    /\ ForgetDrop
    /\ UNCHANGED <<fields, pc, positions, collideResult, trip, returned>>

\* getColumnHeight(columnIndex, recalc=True) called by the caller.
Recalc(n, columnIndex) ==
    /\ Between
    /\ n \in DOMAIN fields
    /\ columnIndex \in 0..fields[n].width - 1
    /\ SetStore(getColumnHeight(TheStore, fields[n], columnIndex))
    /\ target' = n
    /\ UNCHANGED <<fields, placed, piece, pc, currentResult, outcomes, result,
                   positions, collideResult, trip, returned>>

\* collides(ps) called by the caller on field n.
Collides(n, ps) ==
    /\ Between
    /\ collideResult = "unset"
    /\ n \in DOMAIN fields
    /\ positions' = ps
    /\ collideResult' = IF collides(TheStore, fields[n], ps) THEN "True" ELSE "False"
    /\ target' = n
    /\ UNCHANGED <<bufData, bufHeights, fields, placed, piece, pc, currentResult,
                   outcomes, result, trip, returned>>

\* other = field.copy(): the copy gets the arrays np.copy allocates.
Copy ==
    /\ Between
    /\ DOMAIN fields = {"field"}
    /\ LET c == copyField(TheStore, fields["field"], 1)
       IN  /\ fields' = [n \in {"field", "copy"} |->
                            IF n = "copy" THEN c.field ELSE fields[n]]
           /\ SetStore(c.store)
    /\ placed' = [placed EXCEPT !["copy"] = placed["field"]]
    /\ target' = "field"
    /\ UNCHANGED <<piece, pc, currentResult, outcomes, result, positions, collideResult,
                   trip, returned>>

\* other = field.copySubFields((startX, endX)).
Slice(startX, endX) ==
    /\ Between
    /\ DOMAIN fields = {"field"}
    /\ 0 <= startX /\ startX < endX /\ endX <= fields["field"].width
    /\ fields' = [n \in {"field", "sub"} |->
                     IF n = "sub" THEN copySubFields(fields["field"], startX, endX)
                     ELSE fields[n]]
    /\ target' = "field"
    /\ UNCHANGED <<bufData, bufHeights, placed, piece, pc, currentResult, outcomes,
                   result, positions, collideResult, trip, returned>>

AllRows == 0..MaxHeight - 1
AllCols == 0..MaxWidth - 1

Next ==
    \/ /\ Between
       /\ \E s \in Shapes : \E rot \in Rotations(s) : \E col \in AllCols :
              FindDropStart("field", s, rot, col)
    \/ FindDropLoop
    \/ FindDropReturn
    \/ PlaceResult
    \/ DiscardResult
    \/ /\ Between
       /\ \E s \in Shapes : \E rot \in Rotations(s) : \E row \in AllRows :
              \E col \in AllCols : PlacePiece("field", s, rot, row, col)
    \/ /\ Between
       /\ \E p \in placed["field"] : UnplacePiece("field", p)

Spec == Init /\ [][Next]_vars

----------------------------------------------------------------------------
(* Calls of collides with arbitrary integer coordinates *)

MaxPositions == 2

\* Coordinates from two below the lowest valid numpy index up to one past
\* the largest, on both axes.
Coords == (0 - MaxHeight - 1)..MaxHeight

PositionLists ==
    UNION {[1..k -> Coords \X Coords] : k \in 1..MaxPositions}

NextCollides ==
    \/ /\ collideResult = "unset"
       /\ \E row \in AllRows : \E col \in AllCols : PlacePiece("field", "O", 1, row, col)
    \/ /\ collideResult = "unset"
       /\ \E ps \in PositionLists : Collides("field", ps)

SpecCollides == Init /\ [][NextCollides]_vars

----------------------------------------------------------------------------
(* A field and one field derived from it by copy() or copySubFields() *)

FieldNames == {"field", "copy", "sub"}

\* The shapes the callers of this scenario use.
CopyShapes == {"O"}

NextCopy ==
    \/ Copy
    \/ /\ Between
       /\ \E startX \in AllCols : \E endX \in 1..MaxWidth : Slice(startX, endX)
    \/ /\ Between
       /\ \E n \in DOMAIN fields : \E s \in CopyShapes : \E rot \in Rotations(s) :
              \E row \in AllRows : \E col \in AllCols : PlacePiece(n, s, rot, row, col)
    \/ /\ Between
       /\ \E n \in DOMAIN fields : \E p \in placed[n] : UnplacePiece(n, p)
    \/ /\ Between
       /\ \E c \in AllCols : Recalc("sub", c)
    \/ /\ Between
       /\ \E n \in DOMAIN fields : \E s \in CopyShapes : \E rot \in Rotations(s) :
              \E col \in AllCols : FindDropStart(n, s, rot, col)
    \/ FindDropLoop
    \/ FindDropReturn
    \/ PlaceResult
    \/ DiscardResult

SpecCopy == Init /\ [][NextCopy]_vars

----------------------------------------------------------------------------
(* placePiece(piece) followed by unplacePiece(piece) on a populated field *)

\* placePiece(piece) of a collision-free piece; the piece and the arrays as
\* they were before the call are kept (driver, line 195).
PlaceTrip(n, s, rot, row, col) ==
    /\ Between
    /\ trip.stage = "none"
    /\ n \in DOMAIN fields
    /\ row \in 0..fields[n].height - 1
    /\ col \in 0..fields[n].width - 1
    /\ LET p == MakePiece(s, rot, row, col)
       IN  /\ ~collides(TheStore, fields[n], finalPositionsOf(p))
           /\ SetStore(placePiece(TheStore, fields[n], p))
           /\ trip' = [piece |-> p, before |-> TheStore, stage |-> "placed"]
    /\ target' = n
    /\ UNCHANGED <<fields, placed, piece, pc, currentResult, outcomes, result,
                   positions, collideResult, returned>>

\* unplacePiece(piece) of the piece just placed (driver, line 197).
UnplaceTrip ==
    /\ Between
    /\ trip.stage = "placed"
    /\ SetStore(unplacePiece(TheStore, fields[target], trip.piece))
    /\ trip' = [trip EXCEPT !.stage = "unplaced"]
    /\ UNCHANGED <<fields, placed, piece, pc, target, currentResult, outcomes, result,
                   positions, collideResult, returned>>

NextRoundTrip ==
    \/ /\ trip.stage = "none"
       /\ \E s \in Shapes : \E rot \in Rotations(s) : \E row \in AllRows :
              \E col \in AllCols : PlacePiece("field", s, rot, row, col)
    \/ /\ trip.stage = "none"
       /\ \E s \in Shapes : \E rot \in Rotations(s) : \E row \in AllRows :
              \E col \in AllCols : PlaceTrip("field", s, rot, row, col)
    \/ UnplaceTrip

SpecRoundTrip == Init /\ [][NextRoundTrip]_vars

----------------------------------------------------------------------------
(* Pieces committed only where findDrop put them, from an empty field *)

MaxDrops == 4

NextDrops ==
    \/ /\ Between
       /\ \E s \in DropShapes : \E rot \in Rotations(s) : \E col \in AllCols :
              FindDropStart("field", s, rot, col)
    \/ FindDropLoop
    \/ FindDropReturn
    \/ PlaceResultUpTo(MaxDrops)
    \/ DiscardResult

SpecDrops == Init /\ [][NextDrops]_vars

----------------------------------------------------------------------------
(* Calls of getCellValue and getColumnHeights with arbitrary arguments *)

\* getCellValue(y, x) called by the caller on field n.
GetCellValue(n, y, x) ==
    /\ Between
    /\ returned.op = "none"
    /\ n \in DOMAIN fields
    /\ returned' = [op |-> "getCellValue", args |-> <<y, x>>,
                    value |-> getCellValue(TheStore, fields[n], y, x)]
    /\ target' = n
    /\ UNCHANGED <<bufData, bufHeights, fields, placed, piece, pc, currentResult,
                   outcomes, result, positions, collideResult, trip>>

\* getColumnHeights(startIndex, endIndex) called by the caller on field n,
\* each argument given or left out.
GetColumnHeights(n, startIndex, endIndex) ==
    /\ Between
    /\ returned.op = "none"
    /\ n \in DOMAIN fields
    /\ returned' = [op |-> "getColumnHeights", args |-> <<startIndex, endIndex>>,
                    value |-> getColumnHeights(TheStore, fields[n], startIndex, endIndex)]
    /\ target' = n
    /\ UNCHANGED <<bufData, bufHeights, fields, placed, piece, pc, currentResult,
                   outcomes, result, positions, collideResult, trip>>

\* Column coordinates from two below the lowest valid numpy index up to one
\* past the largest, and slice bounds given or left out.
ColCoords == (0 - MaxWidth - 1)..MaxWidth
SliceBounds == {None} \cup {Some(i) : i \in 0..MaxWidth}

NextQueries ==
    \/ /\ returned.op = "none"
       /\ \E row \in AllRows : \E col \in AllCols : PlacePiece("field", "O", 1, row, col)
    \/ /\ returned.op = "none"
       /\ \E y \in Coords : \E x \in ColCoords : GetCellValue("field", y, x)
    \/ /\ returned.op = "none"
       /\ \E startIndex \in SliceBounds : \E endIndex \in SliceBounds :
              GetColumnHeights("field", startIndex, endIndex)

SpecQueries == Init /\ [][NextQueries]_vars

----------------------------------------------------------------------------
(* Vocabulary of the properties: the target field read directly *)

TargetField == fields[target]

InBounds(c) ==
    /\ 0 <= c[1] /\ c[1] < TargetField.height
    /\ 0 <= c[2] /\ c[2] < TargetField.width

CellOf(c) == bufData[TargetField.buf][<<c[1], TargetField.x0 + c[2]>>]

IsEmpty(c) == InBounds(c) /\ CellOf(c) = EMPTY_INT

\* The absolute cells of the caller's piece.
AbsCells ==
    {<<piece.topLeftCorner[1] + piece.currentOrientation[i][1],
       piece.topLeftCorner[2] + piece.currentOrientation[i][2]>> :
        i \in 1..Len(piece.currentOrientation)}

Below(c) == <<c[1] + 1, c[2]>>
LeftOf(c) == <<c[1], c[2] - 1>>
RightOf(c) == <<c[1], c[2] + 1>>

\* The piece overlaps nothing and sticks out nowhere.
CollisionFree == \A c \in AbsCells : IsEmpty(c)

\* Something solid lies under the cell: the piece itself, the floor, or an
\* occupied cell of the grid.
Supported(c) == Below(c) \in AbsCells \/ ~IsEmpty(Below(c))

AnchorRow == piece.topLeftCorner[1]
AnchorCol == piece.topLeftCorner[2]

NumContinue == Cardinality({i \in 1..Len(outcomes) : outcomes[i] = "CONTINUE"})

GridIsEmpty ==
    \A q \in DOMAIN bufData[TargetField.buf] : bufData[TargetField.buf][q] = EMPTY_INT

IsSquare == piece.typeString = "O"
IsNeutralSZ ==
    /\ piece.typeString \in {"S", "Z"}
    /\ piece.currentOrientation = offsets[piece.typeString][1]

----------------------------------------------------------------------------
(* Properties of the drop engine, checked under Spec *)

\* C1: whenever findDrop returns the piece, the piece at its final anchor is
\* collision-free (every absolute cell in bounds and Empty) and every cell has
\* the piece itself, the floor or a non-Empty cell directly below it.
C1_ReturnedPieceRests ==
    result = "piece" => \A c \in AbsCells : IsEmpty(c) /\ Supported(c)

\* A returned piece that rests on an occupied cell of the grid, not on the floor.
C1_Witness ==
    /\ result = "piece"
    /\ \E c \in AbsCells :
           /\ Below(c) \notin AbsCells
           /\ InBounds(Below(c))
           /\ CellOf(Below(c)) # EMPTY_INT

\* C2: a findDrop started at row 0 sees at most `height` CONTINUE outcomes,
\* every outcome before the last one is CONTINUE, and it returns the piece
\* after a final PERFECT or None after a final EXIT.
C2_DropTerminates ==
    /\ NumContinue <= TargetField.height
    /\ \A i \in 1..Len(outcomes) - 1 : outcomes[i] = "CONTINUE"
    /\ pc = "searching" => AnchorRow = Len(outcomes) - 1
    /\ result = "piece" => outcomes[Len(outcomes)] = "PERFECT"
    /\ result = "None" => outcomes[Len(outcomes)] = "EXIT"
    /\ result \in {"unset", "None", "piece"}

\* A search that went all the way down and returned None.
C2_Witness ==
    /\ result = "None"
    /\ NumContinue = TargetField.height - 1

\* C3: isPerfectFit answers EXIT exactly when some absolute cell is out of
\* bounds or not Empty; otherwise it answers CONTINUE when some cell has an
\* Empty cell directly below that is not the piece's own; and when every cell
\* is supported it answers PERFECT although left or right neighbours are Empty
\* or out of bounds.
C3_FitOutcome ==
    currentResult # "unset" =>
        /\ currentResult \in {"EXIT", "PERFECT", "CONTINUE"}
        /\ currentResult = "EXIT" <=> ~CollisionFree
        /\ (CollisionFree /\ \E c \in AbsCells : ~Supported(c))
               => currentResult = "CONTINUE"
        /\ (/\ CollisionFree
            /\ \A c \in AbsCells : Supported(c)
            /\ \A c \in AbsCells : \A nb \in {LeftOf(c), RightOf(c)} :
                   nb \in AbsCells \/ ~InBounds(nb) \/ IsEmpty(nb))
               => currentResult = "PERFECT"

\* A PERFECT outcome of a piece with an Empty cell beside it and the floor
\* under it.
C3_Witness ==
    /\ currentResult = "PERFECT"
    /\ \E c \in AbsCells : IsEmpty(LeftOf(c)) \/ IsEmpty(RightOf(c))
    /\ \E c \in AbsCells : ~InBounds(Below(c))

\* C4: for a collision-free piece, a neighbour below, left of or right of a
\* piece cell that is not the piece's own cell and holds the piece's type
\* makes the outcome CONTINUE.
C4_SameTypeNeighbourContinues ==
    (/\ currentResult # "unset"
     /\ CollisionFree
     /\ \E c \in AbsCells : \E nb \in {Below(c), LeftOf(c), RightOf(c)} :
            /\ nb \notin AbsCells
            /\ InBounds(nb)
            /\ CellOf(nb) = piece.typeInt)
        => currentResult = "CONTINUE"

\* The first square of scenarios 1 and 2, resting on the floor in columns 0-1.
FirstSquare == MakePiece("O", 1, TargetField.height - 2, 0)

\* C5: with one square committed at column 0 on the floor, findDrop of a second
\* square at column 2 from row 0 returns the piece at row height-2.
C5_SecondSquare ==
    (/\ placed["field"] = {FirstSquare}
     /\ IsSquare
     /\ AnchorCol = 2
     /\ result # "unset")
        => result = "piece" /\ AnchorRow = TargetField.height - 2

C5_Witness ==
    /\ TargetField.width = 4
    /\ TargetField.height = 4
    /\ placed["field"] = {FirstSquare}
    /\ IsSquare
    /\ piece.topLeftCorner = <<2, 2>>
    /\ result = "piece"

\* C6: on an empty field findDrop of a square from row 0 in column c with
\* c+1 < width returns the piece at row height-2, column c.
C6_SquareOnEmptyField ==
    (/\ GridIsEmpty
     /\ IsSquare
     /\ AnchorCol + 1 < TargetField.width
     /\ result # "unset")
        => result = "piece" /\ AnchorRow = TargetField.height - 2

C6_Witness ==
    /\ GridIsEmpty
    /\ IsSquare
    /\ TargetField.width = 4
    /\ TargetField.height = 4
    /\ piece.topLeftCorner = <<2, 0>>
    /\ result = "piece"

\* C7: an S or Z piece in its neutral orientation dropped from row 0 onto an
\* empty field gets CONTINUE at every row down to the floor position, EXIT at
\* the row past it, and findDrop returns None.
C7_NeutralSZOnFloor ==
    (/\ GridIsEmpty
     /\ IsNeutralSZ
     /\ result # "unset")
        => /\ result = "None"
           /\ AnchorCol + 2 < TargetField.width =>
                  /\ Len(outcomes) = TargetField.height
                  /\ \A i \in 1..TargetField.height - 1 : outcomes[i] = "CONTINUE"
                  /\ outcomes[TargetField.height] = "EXIT"
                  /\ AnchorRow = TargetField.height - 1

C7_Witness ==
    /\ GridIsEmpty
    /\ IsNeutralSZ
    /\ AnchorCol = 0
    /\ result = "None"
    /\ Len(outcomes) = TargetField.height

----------------------------------------------------------------------------
(* Property of collides, checked under SpecCollides *)

\* C8: collides(positions) returns true exactly when some position of the
\* list is out of bounds (row < 0, row >= height, col < 0, col >= width) or
\* refers to a cell that is not Empty, for all integer coordinates.
C8_CollidesIffOutOrOccupied ==
    collideResult # "unset" =>
        (collideResult = "True" <=>
            \E i \in 1..Len(positions) : ~IsEmpty(positions[i]))

----------------------------------------------------------------------------
(* Properties of the copies, checked under SpecCopy *)

\* What field n shows: its grid and its height cache, read through its window.
View(n) ==
    [data |-> [q \in (0..fields[n].height - 1) \X (0..fields[n].width - 1) |->
                  bufData[fields[n].buf][<<q[1], fields[n].x0 + q[2]>>]],
     heights |-> [c \in 0..fields[n].width - 1 |->
                     bufHeights[fields[n].buf][fields[n].x0 + c]]]

\* C9: a call on the field made by copySubFields leaves the original's grid
\* and columnHeights unchanged, and a call on the original leaves the
\* sub-field's unchanged.
C9_SubFieldIndependent ==
    [][/\ ("sub" \in DOMAIN fields /\ target' = "sub")
              => View("field")' = View("field")
       /\ ("sub" \in DOMAIN fields /\ target' = "field")
              => View("sub")' = View("sub")]_vars

\* C10: copy() yields a field of the same width, height, grid and
\* columnHeights; afterwards a call on the copy leaves the original's grid and
\* columnHeights unchanged, and a call on the original leaves the copy's
\* unchanged.
C10_CopyIndependent ==
    [][/\ ("copy" \notin DOMAIN fields /\ "copy" \in DOMAIN fields')
              => /\ fields'["copy"].width = fields["field"].width
                 /\ fields'["copy"].height = fields["field"].height
                 /\ View("copy")' = View("field")
                 /\ View("field")' = View("field")
       /\ ("copy" \in DOMAIN fields /\ target' = "copy")
              => View("field")' = View("field")
       /\ ("copy" \in DOMAIN fields /\ target' = "field")
              => View("copy")' = View("copy")]_vars

\* A copy of a non-empty field that was changed by a call on the copy and
\* now differs from the original.
C10_Witness ==
    /\ "copy" \in DOMAIN fields
    /\ target = "copy"
    /\ placed["field"] # {}
    /\ View("copy") # View("field")

----------------------------------------------------------------------------
(* Properties of placePiece and unplacePiece, checked under SpecRoundTrip *)

\* The columns a piece touches.
ColumnsOf(p) == {finalPositionsOf(p)[i][2] : i \in 1..Len(finalPositionsOf(p))}

\* Height minus the row of the topmost non-Empty cell of column c of the
\* target field in store st, 0 when the column is empty.
TopHeight(st, c) ==
    LET rows == {y \in 0..TargetField.height - 1 :
                    DataAt(st, TargetField, y, c) # EMPTY_INT}
    IN  IF rows = {} THEN 0
        ELSE TargetField.height - (CHOOSE y \in rows : \A z \in rows : y <= z)

\* C11: placePiece(piece) followed by unplacePiece(piece), for a
\* collision-free piece on a field built by placePiece calls, leaves the
\* grid and the columnHeights array pointwise as they were before.
C11_PlaceUnplaceRoundTrip ==
    trip.stage = "unplaced" =>
        /\ bufData = trip.before.data
        /\ bufHeights = trip.before.heights

\* C13: after the recomputation of a column (getColumnHeight(c, True), as
\* unplacePiece does for every column its piece touched), columnHeights[c]
\* is the height minus the row of the topmost non-Empty cell of the column,
\* or 0 for an empty column, also when the column has an Empty cell under
\* an occupied one.
C13_RecalcGivesTopmost ==
    trip.stage = "unplaced" =>
        \A c \in ColumnsOf(trip.piece) :
            HeightAt(TheStore, TargetField, c) = TopHeight(TheStore, c)

\* Every cached height of the target field is exact in store st.
CacheExact(st) ==
    \A c \in 0..TargetField.width - 1 :
        HeightAt(st, TargetField, c) = TopHeight(st, c)

\* C15: placePiece of a collision-free piece inside the bounds never lowers
\* a cached height, and when every cached height was exact before the call
\* (height minus the topmost non-Empty row, 0 for an empty column) every
\* cached height is exact after it and the columns the piece does not touch
\* keep their cached value.
C15_PlaceKeepsCacheExact ==
    trip.stage = "placed" =>
        /\ \A c \in 0..TargetField.width - 1 :
               HeightAt(TheStore, TargetField, c) >= HeightAt(trip.before, TargetField, c)
        /\ CacheExact(trip.before) =>
               /\ CacheExact(TheStore)
               /\ \A c \in (0..TargetField.width - 1) \ ColumnsOf(trip.piece) :
                      HeightAt(TheStore, TargetField, c)
                          = HeightAt(trip.before, TargetField, c)

\* placePiece on a field whose cache is exact, of a piece that goes under
\* an occupied cell of one column and raises another column.
C15_Witness ==
    /\ trip.stage = "placed"
    /\ CacheExact(trip.before)
    /\ \E c \in ColumnsOf(trip.piece) :
           /\ HeightAt(trip.before, TargetField, c) > 0
           /\ HeightAt(TheStore, TargetField, c) = HeightAt(trip.before, TargetField, c)
    /\ \E c \in ColumnsOf(trip.piece) :
           HeightAt(TheStore, TargetField, c) > HeightAt(trip.before, TargetField, c)

----------------------------------------------------------------------------
(* Properties of fields filled by drops only, checked under SpecDrops *)

\* C14: from an empty field, after any sequence of steps that each commit
\* with placePiece the piece a findDrop from row 0 returned, the cached
\* height of every column a committed piece touches is the height minus the
\* row of the topmost non-Empty cell of that column.
C14_CacheExactAfterDrops ==
    \A p \in placed["field"] :
        \A c \in ColumnsOf(p) :
            HeightAt(TheStore, TargetField, c) = TopHeight(TheStore, c)

\* Two committed pieces, one resting on the other up to the top row.
C14_Witness ==
    /\ Cardinality(placed["field"]) = 2
    /\ \E c \in AllCols : HeightAt(TheStore, TargetField, c) = MaxHeight

\* C19: from an empty field, after any sequence of commits of pieces that
\* findDrop returned on the field as it then was, the non-Empty cells of
\* every column are contiguous from the floor (no Empty cell under a
\* non-Empty one), so that the count getColumnHeight(c, True) makes from the
\* floor upward is the height minus the row of the topmost non-Empty cell.
C19_NoHolesAfterDrops ==
    \A c \in 0..TargetField.width - 1 :
        /\ \A y \in 0..TargetField.height - 1 :
               CellOf(<<y, c>>) # EMPTY_INT =>
                   \A z \in y..TargetField.height - 1 : CellOf(<<z, c>>) # EMPTY_INT
        /\ ScanColumn(TheStore, TargetField, c, TargetField.height - 1, 0)
               = TopHeight(TheStore, c)

\* Three committed pieces, an S or Z among them.
C19_Witness ==
    /\ Cardinality(placed["field"]) >= 3
    /\ \E p \in placed["field"] : p.typeString \in {"S", "Z"}

----------------------------------------------------------------------------
(* Properties of the drop loop and of the cache, checked under Spec *)

\* C12: an isPerfectFit call has no net effect on the field, whatever it
\* answers: the grid and the columnHeights array after the call are what
\* they were before it, and so findDrop leaves both unchanged.
C12_FitLeavesFieldUnchanged ==
    [][pc' = "searching" => (bufData' = bufData /\ bufHeights' = bufHeights)]_vars

\* What isPerfectFit would answer for the caller's piece anchored at row r
\* of its column, on the field as it is.
FitAt(r) ==
    isPerfectFit(TheStore, TargetField,
                 [piece EXCEPT !.topLeftCorner = <<r, AnchorCol>>]).outcome

\* No column of the target field has an Empty cell under a non-Empty one.
NoHoles ==
    \A y \in 0..TargetField.height - 1 : \A c \in 0..TargetField.width - 1 :
        CellOf(<<y, c>>) # EMPTY_INT =>
            \A z \in y..TargetField.height - 1 : CellOf(<<z, c>>) # EMPTY_INT

\* C16 as stated: when a findDrop started at row 0 returns None, there is no
\* row of the same column and orientation at which isPerfectFit would answer
\* PERFECT on the field, and a returned piece has no PERFECT row above it.
C16_NoneMeansNoPerfectRow ==
    /\ result = "None" =>
           \A r \in 0..TargetField.height - 1 : FitAt(r) # "PERFECT"
    /\ result = "piece" =>
           \A r \in 0..AnchorRow - 1 : FitAt(r) # "PERFECT"

\* C16 amended: the same, for None, on fields that have no Empty cell under
\* a non-Empty one.
C16_NoneMeansNoPerfectRowNoHoles ==
    /\ (result = "None" /\ NoHoles) =>
           \A r \in 0..TargetField.height - 1 : FitAt(r) # "PERFECT"
    /\ result = "piece" =>
           \A r \in 0..AnchorRow - 1 : FitAt(r) # "PERFECT"

\* findDrop returned None on a populated field without holes after moving
\* the piece down at least one row.
C16_Witness ==
    /\ result = "None"
    /\ NoHoles
    /\ ~GridIsEmpty
    /\ NumContinue >= 1
    /\ \E c \in AbsCells : InBounds(c) /\ ~IsEmpty(c)

\* C17: findDrop changes nothing of the piece but its anchor row. While it
\* searches, a step is taken only on CONTINUE and moves the piece down by
\* exactly one row, keeping its column, orientation and type; it ends at the
\* first outcome that is not CONTINUE, leaving the piece as it is, with the
\* piece returned on PERFECT and None on EXIT.
C17_DropMovesOnlyTheRow ==
    [][/\ (pc = "searching" /\ pc' = "searching") =>
              /\ currentResult = "CONTINUE"
              /\ piece'.topLeftCorner[1] = piece.topLeftCorner[1] + 1
              /\ piece'.topLeftCorner[2] = piece.topLeftCorner[2]
              /\ piece'.currentOrientation = piece.currentOrientation
              /\ piece'.typeString = piece.typeString
              /\ piece'.typeInt = piece.typeInt
       /\ (pc = "searching" /\ pc' = "idle") =>
              /\ currentResult # "CONTINUE"
              /\ piece' = piece
              /\ result' = (IF currentResult = "PERFECT" THEN "piece" ELSE "None")
              /\ \A i \in 1..Len(outcomes) - 1 : outcomes[i] = "CONTINUE"
              /\ piece.topLeftCorner[1] = Len(outcomes) - 1]_vars

\* A piece returned after it was moved down at least twice past a piece
\* lying on the field.
C17_Witness ==
    /\ result = "piece"
    /\ NumContinue >= 2
    /\ ~GridIsEmpty

----------------------------------------------------------------------------
(* Properties of the queries, checked under SpecQueries *)

\* C18: getCellValue(row, col) is defined for every pair of integers: it
\* answers LIMIT for every coordinate outside [0, height) x [0, width),
\* negative ones included, and the stored cell for every coordinate inside,
\* and it leaves the grid and the columnHeights array as they are.
C18_CellValueTotal ==
    [][(returned.op = "none" /\ returned'.op = "getCellValue") =>
          /\ LET y == returned'.args[1]
                 x == returned'.args[2]
             IN  IF InBounds(<<y, x>>)
                 THEN returned'.value = CellOf(<<y, x>>)
                 ELSE returned'.value = LIMIT_INT
          /\ bufData' = bufData
          /\ bufHeights' = bufHeights]_vars

\* getCellValue answered LIMIT for a negative row and a negative column
\* that numpy would read as an occupied cell counted from the end.
C18_Witness ==
    /\ returned.op = "getCellValue"
    /\ returned.args[1] < 0
    /\ returned.args[2] < 0
    /\ InData(TargetField, returned.args[1], returned.args[2])
    /\ DataAt(TheStore, TargetField, returned.args[1], returned.args[2]) # EMPTY_INT
    /\ returned.value = LIMIT_INT

\* The cached heights of columns lo..hi-1 of the target field, in order.
CachedRange(lo, hi) ==
    [k \in 1..(IF hi > lo THEN hi - lo ELSE 0) |->
        bufHeights[TargetField.buf][TargetField.x0 + lo + k - 1]]

\* C20: getColumnHeights(startIndex, endIndex) answers the cached heights of
\* the requested contiguous range of columns, and getColumnHeights() with no
\* arguments answers the cached heights of all the columns 0..width-1; the
\* field is not modified.
C20_ColumnHeightsRange ==
    [][(returned.op = "none" /\ returned'.op = "getColumnHeights") =>
          /\ LET startIndex == returned'.args[1]
                 endIndex == returned'.args[2]
             IN  /\ (startIndex # None /\ endIndex # None) =>
                        returned'.value
                            = CachedRange(ValueOf(startIndex), ValueOf(endIndex))
                 /\ (startIndex = None /\ endIndex = None) =>
                        returned'.value = CachedRange(0, TargetField.width)
          /\ bufData' = bufData
          /\ bufHeights' = bufHeights]_vars

====
